---- MODULE Spec2Model ----
(***************************************************************************)
(* Model of skylark::algorithms::factorizedCG (factorizedCG.hpp): the      *)
(* block conjugate-gradient solver of (A^T A + lambda*n*I) X = A^T Y.      *)
(*                                                                         *)
(* Scalars of value_type are modelled exactly: a finite value is a reduced *)
(* fraction <<num, den>> with den > 0, and the non-finite results of the   *)
(* unguarded divisions are the IEEE ones, <<0,0>> (NaN), <<1,0>> (+Inf)    *)
(* and <<-1,0>> (-Inf).  Rounding and the sign of zero are not modelled.   *)
(* A block is a sequence of columns and a column a sequence of scalars.    *)
(* A column norm (an irrational number in general) is kept as the record   *)
(* [sqrt |-> q], the non-negative root of q.                               *)
(***************************************************************************)
EXTENDS Integers, Sequences, FiniteSets, TLC

(***************************************************************************)
(* Bounds of the model.                                                    *)
(***************************************************************************)
\* largest iteration limit the caller passes (params.iter_lim ranges over -1..MaxIter)
MaxIter == 2
\* largest regularisation weight lambda the caller passes (0..MaxLambda)
MaxLambda == 1
\* 1 / std::numeric_limits<value_type>::epsilon() of the modelled value type
MachEpsInv == 256

(***************************************************************************)
(* value_type arithmetic                                                   *)
(***************************************************************************)
Abs(x) == IF x < 0 THEN -x ELSE x

Sign(x) == IF x < 0 THEN -1 ELSE IF x > 0 THEN 1 ELSE 0

RECURSIVE Gcd(_, _)
Gcd(a, b) == IF b = 0 THEN a ELSE Gcd(b, a % b)

\* the scalar n/d; d = 0 gives the non-finite value of the sign of n
Rat(n, d) ==
    IF d = 0 THEN <<Sign(n), 0>>
    ELSE LET g == Gcd(Abs(n), Abs(d))
             s == Sign(d)
         IN  <<(s * n) \div g, (s * d) \div g>>

NaN == <<0, 0>>
PInf == <<1, 0>>
Zero == <<0, 1>>
One == <<1, 1>>

IsFinite(a) == a[2] # 0

Neg(a) == <<-a[1], a[2]>>

\* a + b; the finite case goes through the least common denominator
Add(a, b) ==
    IF a[2] = 0 /\ b[2] = 0 THEN (IF a = b THEN a ELSE NaN)
    ELSE IF a[2] = 0 THEN a
    ELSE IF b[2] = 0 THEN b
    ELSE LET g == Gcd(a[2], b[2])
         IN  Rat(a[1] * (b[2] \div g) + b[1] * (a[2] \div g), (a[2] \div g) * b[2])

Sub(a, b) == Add(a, Neg(b))

\* a * b; the finite case cancels common factors before it multiplies
Mul(a, b) ==
    IF a[2] = 0 \/ b[2] = 0 THEN <<Sign(a[1] * b[1]), 0>>
    ELSE LET g1 == Gcd(Abs(a[1]), b[2])
             g2 == Gcd(Abs(b[1]), a[2])
         IN  <<(a[1] \div g1) * (b[1] \div g2), (a[2] \div g2) * (b[2] \div g1)>>

Inv(a) ==
    IF a[2] = 0 THEN (IF a[1] = 0 THEN NaN ELSE Zero)
    ELSE IF a[1] = 0 THEN PInf
    ELSE Rat(a[2], a[1])

\* a / b as the hardware divides: x/0 is an infinity, 0/0 is NaN
Div(a, b) == Mul(a, Inv(b))

\* n1/d1 < n2/d2 for positive d1, d2, by comparing the integer parts and then
\* the remainders
RECURSIVE FracLess(_, _, _, _)
FracLess(n1, d1, n2, d2) ==
    LET q1 == n1 \div d1
        q2 == n2 \div d2
        r1 == n1 % d1
        r2 == n2 % d2
    IN  IF q1 # q2 THEN q1 < q2
        ELSE IF r2 = 0 THEN FALSE
        ELSE IF r1 = 0 THEN TRUE
        ELSE FracLess(d2, r2, d1, r1)

\* a < b; every comparison with NaN is false
Less(a, b) ==
    IF a = NaN \/ b = NaN THEN FALSE
    ELSE IF a[2] = 0 \/ b[2] = 0
         THEN (IF a[2] = 0 /\ b[2] = 0 THEN a[1] < b[1]
               ELSE IF a[2] = 0 THEN a[1] < 0
               ELSE b[1] > 0)
    ELSE FracLess(a[1], a[2], b[1], b[2])

\* a >= b; every comparison with NaN is false
Geq(a, b) == a # NaN /\ b # NaN /\ ~Less(a, b)

\* sqrt(r) < t * nb, where nb = [sqrt |-> q] is a column norm
SqrtLess(r, t, nb) ==
    /\ r # NaN
    /\ r # PInf
    /\ ~Less(r, Zero)
    /\ Less(Zero, t)
    /\ Less(Zero, nb.sqrt)
    /\ Less(r, Mul(Mul(t, t), nb.sqrt))

(***************************************************************************)
(* Matrix primitives of the base:: and El:: layers                         *)
(***************************************************************************)
RECURSIVE SumTo(_, _)
SumTo(f, m) == IF m = 0 THEN Zero ELSE Add(SumTo(f, m - 1), f[m])

\* the sequence f with every entry evaluated (the value is f itself)
AsSeq(f) == f \o <<>>

Dot(u, v) == SumTo(AsSeq([i \in DOMAIN u |-> Mul(u[i], v[i])]), Len(u))

\* base::Height, base::Width of a block stored as a sequence of columns
Height(V) == Len(V[1])
Width(V) == Len(V)

\* op(M) * v for one column v: orientation "N" (El::NORMAL) or "T" (El::TRANSPOSE)
MatVec(orient, M, v) ==
    IF orient = "T"
    THEN AsSeq([j \in 1..Width(M) |-> Dot(M[j], v)])
    ELSE AsSeq([r \in 1..Height(M) |->
                  SumTo(AsSeq([j \in 1..Width(M) |-> Mul(M[j][r], v[j])]), Width(M))])

\* base::Gemm(orient, NORMAL, a, M, V, b, C): C := a * op(M) * V + b * C
\* (with b = 0 the old contents of C are not read)
Gemm(orient, a, M, V, b, C) ==
    AsSeq([c \in 1..Width(V) |->
        LET mv == MatVec(orient, M, V[c])
        IN  AsSeq([r \in DOMAIN mv |->
                IF b = Zero THEN Mul(a, mv[r])
                ELSE Add(Mul(a, mv[r]), Mul(b, C[c][r]))])])

\* base::Axpy(a, U, V) with one scalar: V := V + a * U
Axpy(a, U, V) ==
    AsSeq([c \in DOMAIN V |-> AsSeq([r \in DOMAIN V[c] |-> Add(V[c][r], Mul(a, U[c][r]))])])

\* base::Axpy(a, U, V) with one scalar per column: V_c := V_c + a[c] * U_c
AxpyCols(a, U, V) ==
    AsSeq([c \in DOMAIN V |->
             AsSeq([r \in DOMAIN V[c] |-> Add(V[c][r], Mul(a[c], U[c][r]))])])

\* El::DiagonalScale(El::RIGHT, El::NORMAL, s, V): V_c := s[c] * V_c
DiagonalScale(s, V) ==
    AsSeq([c \in DOMAIN V |-> AsSeq([r \in DOMAIN V[c] |-> Mul(V[c][r], s[c])])])

\* base::ColumnDot(U, V, out)
ColumnDot(U, V) == AsSeq([c \in DOMAIN U |-> Dot(U[c], V[c])])

\* base::ColumnNrm2(V, out)
ColumnNrm2(V) == AsSeq([c \in DOMAIN V |-> [sqrt |-> Dot(V[c], V[c])]])

(***************************************************************************)
(* Pieces of factorizedCG                                                  *)
(***************************************************************************)
\* int ret before it is assigned (it is not read before)
Unset == 0
Success == -1
IterationLimitExceeded == -6

\* value of a local that has not been constructed yet
Undef == <<>>

\* const value_type eps = 32 * numeric_limits<value_type>::epsilon()
eps == Rat(32, MachEpsInv)

\* the tolerance correction at entry
ClampTolerance(t) ==
    IF Less(t, eps) THEN eps
    ELSE IF Geq(t, One) THEN Sub(One, eps)
    ELSE t

log_lev1(params) == params.am_i_printing /\ params.log_level >= 1
log_lev2(params) == params.am_i_printing /\ params.log_level >= 2

\* bool isprecond = !(M.is_id() && std::is_same<sol_type, rhs_type>::value)
IsPrecondOf(Mp, same) == ~(Mp.is_id /\ same)

\* M.apply(R, Z): the preconditioners modelled multiply every column by M.scale;
\* the identity (scale 1) hands the residual through unchanged
PrecondApply(Mp, Rb) ==
    AsSeq([c \in DOMAIN Rb |-> AsSeq([r \in DOMAIN Rb[c] |-> Mul(Mp.scale, Rb[c][r])])])

\* lambda * n as value_type
LambdaN(Am, lam) == Rat(lam * Height(Am), 1)

\* B = A^T Y
RhsOf(Am, Yb, Xb) == Gemm("T", One, Am, Yb, Zero, Xb)

\* (variant) the initial residual without the regularisation term
InitialResidualNoReg(Am, lam, Xb, Bb, Yb) ==
    Gemm("T", Neg(One), Am, Gemm("N", One, Am, Xb, Zero, Yb), One, Bb)

\* R = B - A^T (A X) - lambda*n*X, through the scratch block hermIntermed
InitialResidual(Am, lam, Xb, Bb, Yb) ==
    LET hermIntermed == Gemm("N", One, Am, Xb, Zero, Yb)
        R1 == Gemm("T", Neg(One), Am, hermIntermed, One, Bb)
    IN  Axpy(Neg(LambdaN(Am, lam)), Xb, R1)

\* Q = (A^T A + lambda*n I) P, through the scratch block hermIntermed
NormalOp(Am, lam, Pb, Qb, Yb) ==
    LET hermIntermed == Gemm("N", One, Am, Pb, Zero, Yb)
        Q1 == Gemm("T", One, Am, hermIntermed, Zero, Qb)
    IN  Axpy(LambdaN(Am, lam), Pb, Q1)

\* (variant) the result of M.apply is dropped: Z keeps what it held
ZOfNoApply(isp, Mp, Rb, Zb) == IF isp THEN Zb ELSE Rb

\* Z of this iteration: M.apply(R, Z) with a preconditioner, R itself without
ZOf(isp, Mp, Rb, Zb) == IF isp THEN PrecondApply(Mp, Rb) ELSE Rb

\* rho of this iteration: R.Z with a preconditioner, the kept ressqr without
RhoOf(isp, Rb, Zb, rsq) == IF isp THEN ColumnDot(Rb, Zb) ELSE rsq

\* beta of this iteration
BetaOf(it, rh, rh0) ==
    IF it = 0 THEN AsSeq([i \in DOMAIN rh |-> Zero])
    ELSE AsSeq([i \in DOMAIN rh |-> Div(rh[i], rh0[i])])

\* alpha[i] = rho[i] / rhotmp[i]
AlphaOf(rh, rht) == AsSeq([i \in DOMAIN rh |-> Div(rh[i], rht[i])])

\* the per-column convergence test of one column
ColumnConverged(rsq, tol, nb) == SqrtLess(rsq, tol, nb)

\* convg: the number of columns that pass the test
ConvgOf(rsq, tol, nb) ==
    Cardinality({i \in DOMAIN rsq : ColumnConverged(rsq[i], tol, nb[i])})

\* One pass through the loop body up to the convergence count.  s holds the
\* blocks and per-column scalars; Zblk is the separately allocated block when
\* isp, and is untouched when Z is the alias of R.
LoopBody(s, it, Am, lam, Yb, Mp, isp, tol, nb) ==
    LET Z1 == ZOf(isp, Mp, s.R, s.Zblk)
        rho1 == RhoOf(isp, s.R, Z1, s.ressqr)
        beta1 == BetaOf(it, rho1, s.rho0)
        P1 == Axpy(One, Z1, DiagonalScale(beta1, s.P))
        Q1 == NormalOp(Am, lam, P1, s.Q, Yb)
        rhotmp1 == ColumnDot(P1, Q1)
        alpha1 == AlphaOf(rho1, rhotmp1)
        malpha1 == AsSeq([i \in DOMAIN alpha1 |-> Neg(alpha1[i])])
        X1 == AxpyCols(alpha1, P1, s.X)
        R1 == AxpyCols(malpha1, Q1, s.R)
        ressqr1 == ColumnDot(R1, R1)
    IN  [X |-> X1, R |-> R1, P |-> P1, Q |-> Q1,
         Zblk |-> IF isp THEN Z1 ELSE s.Zblk,
         ressqr |-> ressqr1, rho |-> rho1, rho0 |-> rho1, rhotmp |-> rhotmp1,
         alpha |-> alpha1, beta |-> beta1,
         convg |-> ConvgOf(ressqr1, tol, nb)]

\* The state at the loop head after the set-up part of the function
SetupState(Am, Yb, Xb, lam, Mp, same) ==
    LET B0 == RhsOf(Am, Yb, Xb)
        nb == ColumnNrm2(B0)
        R0 == InitialResidual(Am, lam, Xb, B0, Yb)
    IN  [X |-> Xb, R |-> R0, P |-> Xb, Q |-> B0,
         Zblk |-> IF IsPrecondOf(Mp, same) THEN Xb ELSE Undef,
         ressqr |-> ColumnDot(R0, R0), rho |-> nb, rho0 |-> nb, rhotmp |-> nb,
         alpha |-> nb, beta |-> nb, convg |-> 0]

(***************************************************************************)
(* State                                                                   *)
(***************************************************************************)
VARIABLES
    A, Y, lambda, params, M, sameTypes,   \* the arguments (params is the by-value copy)
    X,                                    \* the caller's solution block, updated in place
    Xinit,                                \* X as the caller passed it
    B, R, P, Q,                           \* the solver's blocks
    Zref, Zblk,                           \* what Z refers to, and the contents of the block
                                          \* allocated for it ("R": Z is the alias of R)
    nrmb, ressqr, rho, rho0, rhotmp, alpha, beta,
    itn, convg, ret, pc,
    allocs, freed,                        \* blocks obtained with new, blocks released with delete
    opCount,                              \* applications of A^T A + lambda*n*I so far
    log                                   \* the lines handed to the logger

vars == <<A, Y, lambda, params, M, sameTypes, X, Xinit, B, R, P, Q, Zref, Zblk,
          nrmb, ressqr, rho, rho0, rhotmp, alpha, beta, itn, convg, ret, pc,
          allocs, freed, opCount, log>>

isprecond == IsPrecondOf(M, sameTypes)

\* the block Z denotes
Z == IF Zref = "R" THEN R ELSE Zblk

\* the blocks and scalars the loop body works on
Cur == [X |-> X, R |-> R, P |-> P, Q |-> Q, Zblk |-> Zblk,
        ressqr |-> ressqr, rho |-> rho, rho0 |-> rho0, rhotmp |-> rhotmp,
        alpha |-> alpha, beta |-> beta, convg |-> convg]

(***************************************************************************)
(* Arguments the model calls the solver with                               *)
(***************************************************************************)
IntBlock(m) == AsSeq([c \in DOMAIN m |-> AsSeq([r \in DOMAIN m[c] |-> <<m[c][r], 1>>])])

\* design matrices (as columns): the identity, diag(2,1) and the singular diag(1,0)
ASet == { IntBlock(<< <<1, 0>>, <<0, 1>> >>),
          IntBlock(<< <<2, 0>>, <<0, 1>> >>),
          IntBlock(<< <<1, 0>>, <<0, 0>> >>) }

\* targets: two unrelated columns, and one with an all-zero column on either side
YSet == { IntBlock(<< <<1, 2>>, <<1, 1>> >>),
          IntBlock(<< <<0, 0>>, <<1, 2>> >>),
          IntBlock(<< <<1, 0>>, <<0, 0>> >>) }

\* initial guesses: the zero block and a non-zero one
X0Set == { IntBlock(<< <<0, 0>>, <<0, 0>> >>),
           IntBlock(<< <<1, 0>>, <<0, 0>> >>) }

\* tolerances below, inside and above the band, and one just under 1
ToleranceSet == { Zero, Neg(One), Rat(2, 1), One, Rat(1, 2),
                  Sub(One, Rat(16, MachEpsInv)) }

\* <<am_i_printing, log_level, res_print>>
LogSet == { <<FALSE, 2, 0>>, <<TRUE, 1, 1>>, <<TRUE, 2, 2>>, <<TRUE, 2, 0>> }

\* preconditioners: the identity, and a scaling by 1/2
IdPrecond == [is_id |-> TRUE, scale |-> One]
HalfPrecond == [is_id |-> FALSE, scale |-> Rat(1, 2)]

\* <<M, std::is_same<sol_type, rhs_type>::value>>
PrecondSet == { <<IdPrecond, TRUE>>, <<IdPrecond, FALSE>>, <<HalfPrecond, TRUE>> }

ParamsSet == { [tolerance |-> t, iter_lim |-> L, am_i_printing |-> lg[1],
                log_level |-> lg[2], res_print |-> lg[3]] :
               t \in ToleranceSet, L \in -1..MaxIter, lg \in LogSet }

Init ==
    /\ A \in ASet
    /\ Y \in YSet
    /\ X \in X0Set
    /\ Xinit = X
    /\ lambda \in 0..MaxLambda
    /\ params \in ParamsSet
    /\ \E pr \in PrecondSet : M = pr[1] /\ sameTypes = pr[2]
    /\ B = Undef /\ R = Undef /\ P = Undef /\ Q = Undef
    /\ Zref = "none" /\ Zblk = Undef
    /\ nrmb = Undef /\ ressqr = Undef /\ rho = Undef /\ rho0 = Undef
    /\ rhotmp = Undef /\ alpha = Undef /\ beta = Undef
    /\ itn = 0 /\ convg = 0
    /\ ret = Unset
    /\ pc = "entry"
    /\ allocs = 0 /\ freed = <<>>
    /\ opCount = 0
    /\ log = <<>>

(***************************************************************************)
(* Steps of factorizedCG                                                   *)
(***************************************************************************)
\* the assignments of the set-up part, s being the state it reaches
SetupEffect(s) ==
    /\ B' = s.Q
    /\ params' = [params EXCEPT !.tolerance = ClampTolerance(params.tolerance)]
    /\ P' = s.P /\ R' = s.R /\ Q' = s.Q
    /\ Zref' = IF isprecond THEN "heap" ELSE "R"
    /\ Zblk' = s.Zblk
    /\ allocs' = IF isprecond THEN allocs + 1 ELSE allocs
    /\ nrmb' = s.rho
    /\ ressqr' = s.ressqr /\ rho' = s.rho /\ rho0' = s.rho0
    /\ rhotmp' = s.rhotmp /\ alpha' = s.alpha /\ beta' = s.beta
    /\ opCount' = opCount + 1
    /\ log' = log \o <<"arrived">> \o AsSeq([i \in 1..Width(Y) |-> "nrmb"])

\* Entry up to the loop head: B, the tolerance correction, the blocks, Z, the
\* initial residual, the column norms of B and the first ressqr.
Setup ==
    /\ pc = "entry"
    /\ SetupEffect(SetupState(A, Y, X, lambda, M, sameTypes))
    /\ pc' = "loop"
    /\ UNCHANGED <<A, Y, lambda, M, sameTypes, X, Xinit, itn, convg, ret, freed>>

\* (variant) the loop header with <= in place of <
LoopContinuesInclusive(it, lim) == it <= lim

\* the loop header: itn < params.iter_lim
LoopContinues(it, lim) == it < lim

\* itn % params.res_print is evaluated only when log_lev2, and has no defined
\* value when res_print is 0
ModUndefined == log_lev2(params) /\ params.res_print = 0

\* the progress line is printed: log_lev2 && (itn % res_print == 0 || convg == k)
ProgressPrinted(it, cv, k) ==
    log_lev2(params) /\ (it % params.res_print = 0 \/ cv = k)

\* the assignments of the loop body up to the convergence count
BodyEffect(s) ==
    /\ X' = s.X /\ R' = s.R /\ P' = s.P /\ Q' = s.Q /\ Zblk' = s.Zblk
    /\ ressqr' = s.ressqr /\ rho' = s.rho /\ rho0' = s.rho0
    /\ rhotmp' = s.rhotmp /\ alpha' = s.alpha /\ beta' = s.beta
    /\ convg' = s.convg
    /\ opCount' = opCount + 1

\* the logging and the exit test that end an iteration
TailEffect(done, printed) ==
    /\ log' = log \o (IF printed THEN <<"iter">> ELSE <<>>)
                  \o (IF done /\ log_lev1(params) THEN <<"conv">> ELSE <<>>)
    /\ ret' = IF done THEN Success ELSE ret
    /\ pc' = IF done THEN "cleanup" ELSE "loop"
    /\ itn' = IF done THEN itn ELSE itn + 1

\* total_ressqr of the progress line: the sum of ressqr over the columns
TotalRessqr(rsq) == SumTo(rsq, Len(rsq))

\* the loop body applied to the current state
BodyNow == LoopBody(Cur, itn, A, lambda, Y, M, isprecond, params.tolerance, nrmb)

IterateWith(s) ==
    /\ BodyEffect(s)
    /\ TailEffect(s.convg = Width(Y), ProgressPrinted(itn, s.convg, Width(Y)))

\* One loop iteration whose logging condition has a defined value
Iterate ==
    /\ pc = "loop"
    /\ LoopContinues(itn, params.iter_lim)
    /\ Zref \in {"R", "heap"}
    /\ ~ModUndefined
    /\ IterateWith(BodyNow)
    /\ UNCHANGED <<A, Y, lambda, params, M, sameTypes, Xinit, B, Zref, nrmb, allocs, freed>>

IterateAnyValueWith(s) ==
    /\ BodyEffect(s)
    /\ \E printed \in BOOLEAN : TailEffect(s.convg = Width(Y), printed)

\* One loop iteration with res_print = 0 on a build whose integer remainder by
\* zero yields some value: the line is printed or not, the iteration goes on
IterateModAnyValue ==
    /\ pc = "loop"
    /\ LoopContinues(itn, params.iter_lim)
    /\ Zref \in {"R", "heap"}
    /\ ModUndefined
    /\ IterateAnyValueWith(BodyNow)
    /\ UNCHANGED <<A, Y, lambda, params, M, sameTypes, Xinit, B, Zref, nrmb, allocs, freed>>

\* One loop iteration with res_print = 0 on a build whose integer remainder by
\* zero traps: the process dies at the logging condition, after the updates
IterateModTrap ==
    /\ pc = "loop"
    /\ LoopContinues(itn, params.iter_lim)
    /\ Zref \in {"R", "heap"}
    /\ ModUndefined
    /\ BodyEffect(BodyNow)
    /\ pc' = "crashed"
    /\ UNCHANGED <<A, Y, lambda, params, M, sameTypes, Xinit, B, Zref, nrmb,
                   itn, ret, allocs, freed, log>>

\* The loop condition fails: ret = -6
Exhaust ==
    /\ pc = "loop"
    /\ ~LoopContinues(itn, params.iter_lim)
    /\ ret' = IterationLimitExceeded
    /\ log' = log \o (IF log_lev1(params) THEN <<"nolimit">> ELSE <<>>)
    /\ pc' = "cleanup"
    /\ UNCHANGED <<A, Y, lambda, params, M, sameTypes, X, Xinit, B, R, P, Q, Zref, Zblk,
                   nrmb, ressqr, rho, rho0, rhotmp, alpha, beta, itn, convg,
                   allocs, freed, opCount>>

\* (variant) the release without the isprecond test
ReleasedAlways(isp, zr) == <<zr>>

\* what the cleanup label releases
Released(isp, zr) == IF isp THEN <<zr>> ELSE <<>>

\* cleanup: if (isprecond) delete &Z; return ret
Cleanup ==
    /\ pc = "cleanup"
    /\ freed' = freed \o Released(isprecond, Zref)
    /\ pc' = "done"
    /\ UNCHANGED <<A, Y, lambda, params, M, sameTypes, X, Xinit, B, R, P, Q, Zref, Zblk,
                   nrmb, ressqr, rho, rho0, rhotmp, alpha, beta, itn, convg, ret,
                   allocs, opCount, log>>

Next == Setup \/ Iterate \/ IterateModAnyValue \/ IterateModTrap \/ Exhaust \/ Cleanup

Spec == Init /\ [][Next]_vars

(***************************************************************************)
(* Notions the properties use                                              *)
(***************************************************************************)
k == Width(Y)

Max(a, b) == IF a > b THEN a ELSE b

\* passes through the loop body completed so far
Iterations == IF pc = "entry" THEN 0 ELSE opCount - 1

\* a <= b; false when either side is NaN
Leq(a, b) == a # NaN /\ b # NaN /\ ~Less(b, a)

FiniteCol(v) == \A r \in DOMAIN v : IsFinite(v[r])

Identity == IntBlock(<< <<1, 0>>, <<0, 1>> >>)
ZeroBlock == IntBlock(<< <<0, 0>>, <<0, 0>> >>)

\* B = A^T Y, from the arguments
Bref == RhsOf(A, Y, Xinit)

\* some column of B has norm zero
HasZeroColumn == \E i \in DOMAIN Bref : Dot(Bref[i], Bref[i]) = Zero

\* B - (A^T A + lambda*n*I) X for the current X
TrueResidual == Axpy(Neg(One), NormalOp(A, lambda, X, X, Y), Bref)

\* A's columns are orthogonal and of one length: A^T A is a multiple of I
WellConditioned(Am) ==
    LET G == Gemm("T", One, Am, Am, Zero, Am)
    IN  /\ G[1][1] # Zero
        /\ \A c \in DOMAIN G : \A r \in DOMAIN G[c] :
               G[c][r] = IF r = c THEN G[1][1] ELSE Zero

\* The state after t passes through the loop body of the run that differs from
\* this one only in the preconditioner Mp, the type flag and the tolerance
RECURSIVE RefState(_, _, _, _)
RefState(t, Mp, same, tol) ==
    IF t = 0 THEN SetupState(A, Y, Xinit, lambda, Mp, same)
    ELSE LoopBody(RefState(t - 1, Mp, same, tol), t - 1, A, lambda, Y, Mp,
                  IsPrecondOf(Mp, same), tol, ColumnNrm2(Bref))

\* the trajectory the equivalences compare
Proj(s) == [X |-> s.X, R |-> s.R, P |-> s.P, rho |-> s.rho, alpha |-> s.alpha,
            beta |-> s.beta, convg |-> s.convg]

\* the status a run returns whose last state is s after t passes
StatusOf(s, t) == IF t >= 1 /\ s.convg = k THEN Success ELSE IterationLimitExceeded

\* this run is where the run that reached s is, and returns what it returns
SameRun(s) ==
    /\ Proj(Cur) = Proj(s)
    /\ (pc = "done" => ret = StatusOf(s, Iterations))

\* tr is the residual of the current X: R agrees with it in every finite
\* column, and once Success is returned it passes the test in every column
ResidualIs(tr) ==
    /\ \A c \in DOMAIN X : (FiniteCol(X[c]) /\ FiniteCol(R[c])) => R[c] = tr[c]
    /\ (ret = Success =>
           \A c \in DOMAIN X : SqrtLess(Dot(tr[c], tr[c]), params.tolerance, nrmb[c]))

(***************************************************************************)
(* Properties                                                              *)
(***************************************************************************)

\* C1: the solver ends after at most L passes in exactly one of two ways: it
\* returns Success iff some pass t in 1..L ends with every column passing the
\* test (and it stops at the first such pass), and IterationLimitExceeded iff L
\* passes complete without one; no other return value or end state is reached.
C1_TwoOutcomes ==
    /\ pc # "crashed"
    /\ Iterations <= Max(params.iter_lim, 0)
    /\ ret \in {Unset, Success, IterationLimitExceeded}
    /\ (pc = "done" => ret # Unset)
    /\ (pc = "loop" /\ Iterations >= 1 => convg # k)
    /\ (ret = Success => Iterations >= 1 /\ convg = k)
    /\ (ret = IterationLimitExceeded =>
            Iterations = Max(params.iter_lim, 0) /\ (Iterations >= 1 => convg # k))

\* C2 as stated: with iteration_limit L (taken here with L >= 1) the operator is
\* applied at most L times in all, the initial residual included.
C2_AtMostLApplications == params.iter_lim >= 1 => opCount <= params.iter_lim

\* C2 as amended: the operator is applied at most L + 1 times in all, once for
\* the initial residual and at most L times in the loop (once when L <= 0), and
\* a call that leaves the loop without convergence returns IterationLimitExceeded.
C2_AtMostLPlusOneApplications ==
    /\ opCount <= 1 + Max(params.iter_lim, 0)
    /\ (pc # "entry" => opCount >= 1)
    /\ (pc = "done" /\ ~(Iterations >= 1 /\ convg = k) => ret = IterationLimitExceeded)

C2_Witness ==
    /\ pc = "done"
    /\ params.iter_lim >= 2
    /\ opCount = params.iter_lim + 1
    /\ ret = IterationLimitExceeded

\* C3: whatever tolerance is supplied, the tolerance the convergence test uses
\* lies in the closed band [32 eps, 1 - 32 eps].
C3_ToleranceInBand ==
    pc # "entry" =>
        /\ Geq(params.tolerance, eps)
        /\ Geq(Sub(One, eps), params.tolerance)

\* C4: for A = I, lambda = 0, X = 0 at entry and any Y, at the end of the first
\* pass X equals Y, every column passes the test and Success is returned.
C4_ExactRecovery ==
    (/\ A = Identity /\ lambda = 0 /\ Xinit = ZeroBlock
     /\ pc \in {"loop", "cleanup", "done"}
     /\ Iterations >= 1)
    => (X = Y /\ convg = k /\ ret = Success)

\* C5: with the identity preconditioner the run goes, pass by pass, through the
\* same X, R, P, rho, alpha, beta and returns the same status as the run with no
\* preconditioner, whether Z is the alias of R or a block of its own.
C5_IdentityPrecondEquivalence ==
    (pc # "entry" /\ M.is_id) =>
        SameRun(RefState(Iterations, IdPrecond, TRUE, params.tolerance))

C5_Witness ==
    /\ pc = "done"
    /\ M.is_id /\ ~sameTypes
    /\ Iterations = 2
    /\ ret = Success
    /\ lambda > 0

\* C6: the logging parameters change neither the passes made, nor the blocks and
\* scalars, nor the status, and no run ends abnormally.
C6_LoggingNoInfluence ==
    /\ pc # "crashed"
    /\ (pc # "entry" => SameRun(RefState(Iterations, M, sameTypes, params.tolerance)))

\* C7: for lambda > 0 and a well-conditioned A the sum of ressqr over the
\* columns does not grow from the start of a pass to its end.
C7_MonotoneResidual ==
    [][ (/\ lambda > 0 /\ WellConditioned(A)
         /\ pc = "loop" /\ opCount' = opCount + 1)
        => Leq(TotalRessqr(ressqr'), TotalRessqr(ressqr)) ]_vars

\* C8: before the first pass and after every pass, R = B - (A^T A + lambda*n*I) X
\* in every column whose values are finite, and ressqr[i] = R_i . R_i; so when
\* Success is returned the true residual of X passes the test in every column.
C8_ResidualInvariant ==
    pc # "entry" =>
        /\ ressqr = ColumnDot(R, R)
        /\ ResidualIs(TrueResidual)

C8_Witness ==
    /\ pc = "done"
    /\ ret = Success
    /\ Iterations = 2
    /\ lambda > 0
    /\ Xinit # ZeroBlock

\* C9: a block allocated for Z is released exactly once, after the loop and
\* before the return, on every exit; when Z is the alias of R nothing is
\* allocated and nothing released, so R is never released through Z.
C9_ZReleasedOnce ==
    /\ (pc = "done" =>
           IF isprecond
           THEN allocs = 1 /\ freed = <<"heap">> /\ Zref = "heap"
           ELSE allocs = 0 /\ freed = <<>> /\ Zref = "R")
    /\ (pc \in {"entry", "loop", "cleanup"} => freed = <<>>)
    /\ \A i \in DOMAIN freed : freed[i] # "R"
    /\ Len(freed) <= allocs

C9_Witness ==
    /\ pc = "done"
    /\ isprecond
    /\ freed = <<"heap">>
    /\ ret = Success

\* C10: when a column of B has norm zero or iteration_limit <= 0, Success is
\* never returned: the call returns IterationLimitExceeded (it does return, and
\* with that status), and with iteration_limit <= 0 it leaves X as it was.
C10_ReturnsLimitExceeded ==
    (HasZeroColumn \/ params.iter_lim <= 0) =>
        /\ ret # Success
        /\ pc # "crashed"
        /\ (pc = "done" => ret = IterationLimitExceeded)
        /\ (params.iter_lim <= 0 => X = Xinit)

====
